---- MODULE Spec2Model ----
(***************************************************************************)
(* Oracle consensus and reputation engine of the StellarSwipe oracle       *)
(* contract (contracts/oracle/src/lib.rs, reputation.rs, types.rs).        *)
(*                                                                         *)
(* Every public entry point is one atomic action (the host serialises      *)
(* contract invocations).  A call that returns Err or traps leaves the     *)
(* persisted state as it was; only the observation variables call, result  *)
(* and events record it.  process_external_prices (external_adapter.rs) is *)
(* a library function and is observed when it returns to its caller.       *)
(***************************************************************************)
EXTENDS Integers, Sequences, FiniteSets, TLC

\* ------------------------------------------------------------------ bounds
\* longest round buffer explored
MaxBuf == 3
\* submissions tracked in the reputation records plus pending in the buffer
MaxTracked == 3
\* the same, where the admin also removes oracles
MaxTrackedAdmin == 2
\* latest ledger timestamp explored
MaxNow == 604801
\* longest batch of signed observations explored
MaxBatch == 2
\* latest ledger timestamp explored next to the 300 second freshness window
MaxNowExt == 301
\* most submissions tracked in the exploration that starts from a gated
\* oracle, 3 tracked submissions
MaxTrackedGated == 5
\* most submissions tracked in the exploration that starts from long-serving
\* oracles, 99 tracked submissions each
MaxTrackedVeteran == 300

\* ------------------------------------------------------- program constants
ACCURACY_THRESHOLD_TIGHT == 100
ACCURACY_THRESHOLD_MODERATE == 500
MAJOR_DEVIATION_THRESHOLD == 2000
WEEK_IN_SECONDS == 86400 * 7

\* ------------------------------------------------------------------ inputs
Address == {"o1", "o2", "o3"}
Admins == {"admin"}
Callers == {"admin", "mallory"}
NoAdmin == "none"
NoOracle == "-"

(***************************************************************************)
(* i128 values.  TLC integers are 32 bits wide, so an i128 is the pair     *)
(* <<a, b>> standing for a * 2^124 + b with |b| small; the i128 range is    *)
(* [-8 * 2^124, 8 * 2^124).  Sums, differences and products by 10000 are   *)
(* exact on pairs, and wrapping modulo 2^128 is a % 16 on the first        *)
(* component (10000 = 16 * 625, so a wrapped product by 10000 keeps only   *)
(* the second component).                                                  *)
(***************************************************************************)
I(n) == <<0, n>>
I128_MAX == <<8, -1>>
I128Add(x, y) == <<x[1] + y[1], x[2] + y[2]>>
I128Sub(x, y) == <<x[1] - y[1], x[2] - y[2]>>
I128Scale(x, k) == <<x[1] * k, x[2] * k>>
I128Sign(x) == IF x[1] # 0 THEN (IF x[1] > 0 THEN 1 ELSE -1)
               ELSE IF x[2] > 0 THEN 1 ELSE IF x[2] < 0 THEN -1 ELSE 0
I128Lt(x, y) == I128Sign(I128Sub(x, y)) < 0
I128Le(x, y) == I128Sign(I128Sub(x, y)) <= 0
InRange(x) == \/ x[1] \in -7..7
              \/ x[1] = 8 /\ x[2] < 0
              \/ x[1] = -8 /\ x[2] >= 0
\* two's complement wrap-around of an exact result into the i128 range
Wrap(x) == LET a0 == x[1] % 16
           IN IF a0 > 8 \/ (a0 = 8 /\ x[2] >= 0) THEN <<a0 - 16, x[2]>>
              ELSE <<a0, x[2]>>
\* integer division truncating toward zero, as Rust's `/`
TruncDiv(n, d) == LET q == (IF n < 0 THEN -n ELSE n) \div (IF d < 0 THEN -d ELSE d)
                  IN IF (n < 0) = (d < 0) THEN q ELSE -q
\* x / y on i128 for the operand shapes the contract produces: both small,
\* a small dividend under a large divisor, or a large even dividend over 2
I128Div(x, y) ==
    IF x[1] = 0 /\ y[1] = 0 THEN I(TruncDiv(x[2], y[2]))
    ELSE IF x[1] = 0 THEN I(0)
    ELSE IF I128Sign(x) >= 0 THEN <<x[1] \div 2, x[2] \div 2>>
    ELSE <<x[1] \div 2, -((-x[2]) \div 2)>>

Min(a, b) == IF a < b THEN a ELSE b
Max(a, b) == IF a > b THEN a ELSE b

VARIABLES
    admin,            \* StorageKey::Admin, NoAdmin before initialize
    oracles,          \* StorageKey::Oracles, Vec<Address>
    stats_map,        \* StorageKey::OracleStats, Map<Address, OracleReputation>
    submissions,      \* StorageKey::PriceSubmissions, Vec<PriceSubmission>
    consensus,        \* StorageKey::ConsensusPrice, <<>> for None, <<data>> for Some
    now,              \* env.ledger().timestamp()
    overflow_checks,  \* build profile: TRUE traps on integer overflow, FALSE wraps
    call,             \* the operation invoked last
    result,           \* what the last invocation returned
    events            \* events published by the last invocation

vars == <<admin, oracles, stats_map, submissions, consensus, now,
          overflow_checks, call, result, events>>
store == <<admin, oracles, stats_map, submissions, consensus>>

DefaultStats == [total_submissions |-> 0, accurate_submissions |-> 0,
                 avg_deviation |-> 0, reputation_score |-> 50, weight |-> 1,
                 last_slash |-> 0]

get_oracle_stats(m, o) == IF o \in DOMAIN m THEN m[o] ELSE DefaultStats

save_oracle_stats(m, o, s) ==
    [x \in (DOMAIN m) \cup {o} |-> IF x = o THEN s ELSE m[x]]

EmptyMap == [x \in {} |-> DefaultStats]

Contains(seq, x) == \E i \in 1..Len(seq) : seq[i] = x

Event(name, oracle, price, reason, n1, n2, n3) ==
    [name |-> name, oracle |-> oracle, price |-> price, reason |-> reason,
     n1 |-> n1, n2 |-> n2, n3 |-> n3]
Ok(v) == [status |-> "Ok", err |-> "", val |-> v]
Err(e) == [status |-> "Err", err |-> e, val |-> I(0)]
Trap(why) == [status |-> "Trap", err |-> why, val |-> I(0)]

Init ==
    /\ admin = NoAdmin
    /\ oracles = <<>>
    /\ stats_map = EmptyMap
    /\ submissions = <<>>
    /\ consensus = <<>>
    /\ now = 0
    /\ overflow_checks = TRUE
    /\ call = "deploy"
    /\ result = Ok(I(0))
    /\ events = <<>>

\* the ledger clock advances between invocations
Tick(d) ==
    /\ now + d <= MaxNow
    /\ now' = now + d
    /\ call' = "tick"
    /\ result' = Ok(I(0))
    /\ events' = <<>>
    /\ UNCHANGED <<store, overflow_checks>>

initialize(a) ==
    /\ call' = "initialize"
    /\ events' = <<>>
    /\ IF admin # NoAdmin
       THEN /\ result' = Trap("already initialized")
            /\ UNCHANGED admin
       ELSE /\ admin' = a
            /\ result' = Ok(I(0))
    /\ UNCHANGED <<oracles, stats_map, submissions, consensus, now, overflow_checks>>

require_admin(caller) == admin # NoAdmin /\ caller = admin

\* mutant: an oracle that already has a record keeps it on registration
register_oracle_keeps_record(a, oracle) ==
    /\ call' = "register_oracle"
    /\ events' = <<>>
    /\ UNCHANGED <<admin, submissions, consensus, now, overflow_checks>>
    /\ IF ~require_admin(a)
       THEN /\ result' = Err("Unauthorized")
            /\ UNCHANGED <<oracles, stats_map>>
       ELSE IF Contains(oracles, oracle)
       THEN /\ result' = Err("OracleAlreadyExists")
            /\ UNCHANGED <<oracles, stats_map>>
       ELSE /\ oracles' = Append(oracles, oracle)
            /\ stats_map' = save_oracle_stats(stats_map, oracle,
                                              get_oracle_stats(stats_map, oracle))
            /\ result' = Ok(I(0))

\* mutant: the default record is written before the duplicate is detected
register_oracle_resets_first(a, oracle) ==
    /\ call' = "register_oracle"
    /\ events' = <<>>
    /\ UNCHANGED <<admin, submissions, consensus, now, overflow_checks>>
    /\ IF ~require_admin(a)
       THEN /\ result' = Err("Unauthorized")
            /\ UNCHANGED <<oracles, stats_map>>
       ELSE IF Contains(oracles, oracle)
       THEN /\ result' = Err("OracleAlreadyExists")
            /\ stats_map' = save_oracle_stats(stats_map, oracle, DefaultStats)
            /\ UNCHANGED oracles
       ELSE /\ oracles' = Append(oracles, oracle)
            /\ stats_map' = save_oracle_stats(stats_map, oracle, DefaultStats)
            /\ result' = Ok(I(0))

register_oracle(a, oracle) ==
    /\ call' = "register_oracle"
    /\ events' = <<>>
    /\ UNCHANGED <<admin, submissions, consensus, now, overflow_checks>>
    /\ IF ~require_admin(a)
       THEN /\ result' = Err("Unauthorized")
            /\ UNCHANGED <<oracles, stats_map>>
       ELSE IF Contains(oracles, oracle)
       THEN /\ result' = Err("OracleAlreadyExists")
            /\ UNCHANGED <<oracles, stats_map>>
       ELSE /\ oracles' = Append(oracles, oracle)
            /\ stats_map' = save_oracle_stats(stats_map, oracle, DefaultStats)
            /\ result' = Ok(I(0))

\* ---------------------------------------------------------- reputation.rs
\* mutant: the accuracy share is a percentage of 100 submissions, not of the
\* oracle's own total
calculate_reputation_per_100(m, o, t) ==
    LET stats == get_oracle_stats(m, o)
        accuracy_score == (stats.accurate_submissions * 60) \div 100
        deviation_penalty == Min(TruncDiv(stats.avg_deviation, 1000), 30)
        deviation_score == 30 - deviation_penalty
        consistency_score == IF t - stats.last_slash > WEEK_IN_SECONDS THEN 10 ELSE 0
        total == accuracy_score + deviation_score + consistency_score
    IN IF stats.total_submissions = 0 THEN 50
       ELSE Max(Min(total, 100), 0)

\* mutant: a recomputation never raises the score above the stored one
calculate_reputation_capped_by_stored(m, o, t) ==
    LET stats == get_oracle_stats(m, o)
        accuracy_score == (stats.accurate_submissions * 60) \div stats.total_submissions
        deviation_penalty == Min(TruncDiv(stats.avg_deviation, 1000), 30)
        deviation_score == 30 - deviation_penalty
        consistency_score == IF t - stats.last_slash > WEEK_IN_SECONDS THEN 10 ELSE 0
        total == accuracy_score + deviation_score + consistency_score
    IN IF stats.total_submissions = 0 THEN 50
       ELSE Min(stats.reputation_score, Max(Min(total, 100), 0))

\* mutant: an oracle without submissions is scored with an accuracy share of 0
calculate_reputation_untracked_scored(m, o, t) ==
    LET stats == get_oracle_stats(m, o)
        accuracy_score == IF stats.total_submissions = 0 THEN 0
                          ELSE (stats.accurate_submissions * 60) \div stats.total_submissions
        deviation_penalty == Min(TruncDiv(stats.avg_deviation, 1000), 30)
        deviation_score == 30 - deviation_penalty
        consistency_score == IF t - stats.last_slash > WEEK_IN_SECONDS THEN 10 ELSE 0
        total == accuracy_score + deviation_score + consistency_score
    IN Max(Min(total, 100), 0)

calculate_reputation(m, o, t) ==
    LET stats == get_oracle_stats(m, o)
        accuracy_score == (stats.accurate_submissions * 60) \div stats.total_submissions
        deviation_penalty == Min(TruncDiv(stats.avg_deviation, 1000), 30)
        deviation_score == 30 - deviation_penalty
        consistency_score == IF t - stats.last_slash > WEEK_IN_SECONDS THEN 10 ELSE 0
        total == accuracy_score + deviation_score + consistency_score
    IN IF stats.total_submissions = 0 THEN 50
       ELSE Max(Min(total, 100), 0)

\* mutant: the lowest paying tier starts at 60
WeightTierFrom60(reputation) ==
    IF reputation \in 90..100 THEN 10
    ELSE IF reputation \in 75..89 THEN 5
    ELSE IF reputation \in 60..74 THEN 2
    ELSE 0

WeightTier(reputation) ==
    IF reputation \in 90..100 THEN 10
    ELSE IF reputation \in 75..89 THEN 5
    ELSE IF reputation \in 60..74 THEN 2
    ELSE IF reputation \in 50..59 THEN 1
    ELSE 0

adjust_oracle_weight(m, o, t) ==
    LET reputation == calculate_reputation(m, o, t)
        stats == get_oracle_stats(m, o)
    IN save_oracle_stats(m, o, [stats EXCEPT !.weight = WeightTier(reputation),
                                             !.reputation_score = reputation])

\* ((submitted_price - consensus_price).abs() * 10000) / consensus_price;
\* ovf tells whether a step left the i128 range, v is the wrapped result
Deviation(price, c) ==
    LET d == I128Sub(price, c)
        wd == Wrap(d)
        n == I128Sub(I(0), wd)
        a == IF I128Sign(wd) < 0 THEN Wrap(n) ELSE wd
        p == I128Scale(a, 10000)
        wp == Wrap(p)
    IN [v |-> IF c = I(0) THEN 0 ELSE I128Div(wp, c)[2],
        ovf |-> \/ ~InRange(d)
                \/ I128Sign(wd) < 0 /\ ~InRange(n)
                \/ ~InRange(p),
        div0 |-> c = I(0)]

\* mutant: the tight and the moderate threshold each count the submission
track_oracle_accuracy_twice(m, o, submitted_price, consensus_price) ==
    LET stats == get_oracle_stats(m, o)
        total == stats.total_submissions + 1
        deviation == Deviation(submitted_price, consensus_price).v
        total_dev == stats.avg_deviation * (total - 1)
        tight == IF deviation <= ACCURACY_THRESHOLD_TIGHT THEN 1 ELSE 0
        moderate == IF deviation <= ACCURACY_THRESHOLD_MODERATE THEN 1 ELSE 0
    IN save_oracle_stats(m, o,
         [stats EXCEPT !.total_submissions = total,
                       !.avg_deviation = TruncDiv(total_dev + deviation, total),
                       !.accurate_submissions = stats.accurate_submissions + tight + moderate])

track_oracle_accuracy(m, o, submitted_price, consensus_price) ==
    LET stats == get_oracle_stats(m, o)
        total == stats.total_submissions + 1
        deviation == Deviation(submitted_price, consensus_price).v
        total_dev == stats.avg_deviation * (total - 1)
        accurate == IF deviation <= ACCURACY_THRESHOLD_TIGHT
                    THEN stats.accurate_submissions + 1
                    ELSE IF deviation <= ACCURACY_THRESHOLD_MODERATE
                    THEN stats.accurate_submissions + 1
                    ELSE stats.accurate_submissions
    IN save_oracle_stats(m, o,
         [stats EXCEPT !.total_submissions = total,
                       !.avg_deviation = TruncDiv(total_dev + deviation, total),
                       !.accurate_submissions = accurate])

SlashPenalty(reason) == IF reason = "MajorDeviation" THEN 20 ELSE 30

\* mutant: a slash also takes the oracle's weight away at once
slash_oracle_gates(m, o, reason, t) ==
    LET stats == get_oracle_stats(m, o)
    IN save_oracle_stats(m, o,
         [stats EXCEPT !.reputation_score = Max(stats.reputation_score - SlashPenalty(reason), 0),
                       !.last_slash = t,
                       !.weight = 0])

slash_oracle(m, o, reason, t) ==
    LET stats == get_oracle_stats(m, o)
    IN save_oracle_stats(m, o,
         [stats EXCEPT !.reputation_score = Max(stats.reputation_score - SlashPenalty(reason), 0),
                       !.last_slash = t])

\* mutant: only the score decides, the accuracy rate of a long record does not
should_remove_oracle_by_score_only(m, o, t) ==
    calculate_reputation(m, o, t) < 50

should_remove_oracle(m, o, t) ==
    LET stats == get_oracle_stats(m, o)
    IN \/ /\ stats.total_submissions >= 100
          /\ (stats.accurate_submissions * 100) \div stats.total_submissions < 50
       \/ calculate_reputation(m, o, t) < 50

\* ------------------------------------------------------------------ lib.rs
RECURSIVE WeightedPrices(_, _)
WeightedPrices(subs, m) ==
    IF subs = <<>> THEN <<>>
    ELSE LET weight == Max(get_oracle_stats(m, Head(subs).oracle).weight, 1)
         IN [i \in 1..weight |-> Head(subs).price] \o WeightedPrices(Tail(subs), m)

\* the exact sum of the two middle elements, in range or not
MiddleSum(sorted) == I128Add(sorted[Len(sorted) \div 2], sorted[Len(sorted) \div 2 + 1])

weighted_median(subs, m) ==
    LET sorted == SortSeq(WeightedPrices(subs, m), I128Lt)
        len == Len(sorted)
        mid == len \div 2
    IN IF subs = <<>> THEN [v |-> I(0), ovf |-> FALSE]
       ELSE IF len % 2 = 0
       THEN [v |-> I128Div(Wrap(MiddleSum(sorted)), I(2)),
             ovf |-> ~InRange(MiddleSum(sorted))]
       ELSE [v |-> sorted[mid + 1], ovf |-> FALSE]

\* mutant: the last oracle is moved into the place of the removed one
remove_oracle_internal_swap(os, oracle) ==
    IF ~Contains(os, oracle) THEN os
    ELSE LET at == CHOOSE i \in 1..Len(os) : os[i] = oracle
             moved == [os EXCEPT ![at] = os[Len(os)]]
         IN SubSeq(moved, 1, Len(os) - 1)

remove_oracle_internal(os, oracle) == SelectSeq(os, LAMBDA o : o # oracle)

\* lib.rs 304-316: accuracy tracking and slashing, in buffer order
RECURSIVE TrackAll(_, _, _, _)
TrackAll(subs, m, c, t) ==
    IF subs = <<>> THEN [m |-> m, ev |-> <<>>, ovf |-> FALSE, div0 |-> FALSE]
    ELSE LET s == Head(subs)
             dev == Deviation(s.price, c)
             m1 == track_oracle_accuracy(m, s.oracle, s.price, c)
             slashed == dev.v > MAJOR_DEVIATION_THRESHOLD
             m2 == IF slashed THEN slash_oracle(m1, s.oracle, "MajorDeviation", t) ELSE m1
             ev == IF slashed
                   THEN <<Event("oracle_slashed", s.oracle, I(0), "major_deviation", 20, 0, 0)>>
                   ELSE <<>>
             rest == TrackAll(Tail(subs), m2, c, t)
         IN [m |-> rest.m, ev |-> ev \o rest.ev,
             ovf |-> dev.ovf \/ rest.ovf, div0 |-> dev.div0 \/ rest.div0]

\* mutant: a weight_adjusted event for every registered oracle
RECURSIVE AdjustAllAnnounced(_, _, _)
AdjustAllAnnounced(os, m, t) ==
    IF os = <<>> THEN [m |-> m, ev |-> <<>>, removed |-> <<>>]
    ELSE LET oracle == Head(os)
             old_weight == get_oracle_stats(m, oracle).weight
             m1 == adjust_oracle_weight(m, oracle, t)
             new_weight == get_oracle_stats(m1, oracle).weight
             ev == <<Event("weight_adjusted", oracle, I(0), "", old_weight,
                           new_weight, calculate_reputation(m1, oracle, t))>>
             rm == IF should_remove_oracle(m1, oracle, t) THEN <<oracle>> ELSE <<>>
             rest == AdjustAllAnnounced(Tail(os), m1, t)
         IN [m |-> rest.m, ev |-> ev \o rest.ev, removed |-> rm \o rest.removed]

\* lib.rs 318-341: weight adjustment and collection of removal candidates
RECURSIVE AdjustAll(_, _, _)
AdjustAll(os, m, t) ==
    IF os = <<>> THEN [m |-> m, ev |-> <<>>, removed |-> <<>>]
    ELSE LET oracle == Head(os)
             old_weight == get_oracle_stats(m, oracle).weight
             m1 == adjust_oracle_weight(m, oracle, t)
             new_weight == get_oracle_stats(m1, oracle).weight
             ev == IF new_weight # old_weight
                   THEN <<Event("weight_adjusted", oracle, I(0), "", old_weight,
                                new_weight, calculate_reputation(m1, oracle, t))>>
                   ELSE <<>>
             rm == IF should_remove_oracle(m1, oracle, t) THEN <<oracle>> ELSE <<>>
             rest == AdjustAll(Tail(os), m1, t)
         IN [m |-> rest.m, ev |-> ev \o rest.ev, removed |-> rm \o rest.removed]

RECURSIVE RemoveAll(_, _)
RemoveAll(os, removed) ==
    IF removed = <<>> THEN os
    ELSE RemoveAll(remove_oracle_internal(os, Head(removed)), Tail(removed))

RemovedEvents(removed) ==
    [i \in 1..Len(removed) |-> Event("oracle_removed", removed[i], I(0), "Low reputation", 0, 0, 0)]

\* mutant: candidates are removed one by one while more than 2 oracles remain
RECURSIVE RemoveWhileAboveFloor(_, _)
RemoveWhileAboveFloor(os, removed) ==
    IF removed = <<>> \/ Len(os) <= 2 THEN os
    ELSE RemoveWhileAboveFloor(remove_oracle_internal(os, Head(removed)), Tail(removed))

\* mutant: the candidates are removed whatever number remains
ApplyRemovalNoFloor(os, removed) == RemoveAll(os, removed)

\* lib.rs 343-350: removal is applied only when at least 2 oracles remain
ApplyRemoval(os, removed) ==
    IF Len(os) - Len(removed) >= 2 THEN RemoveAll(os, removed) ELSE os

RECURSIVE SumTotals(_, _)
SumTotals(m, S) ==
    IF S = {} THEN 0
    ELSE LET o == CHOOSE x \in S : TRUE
         IN m[o].total_submissions + SumTotals(m, S \ {o})

\* submissions the reputation records and the buffer hold together
Tracked == SumTotals(stats_map, DOMAIN stats_map) + Len(submissions)

\* mutant: the registry is consulted before the price is validated
submit_error_registry_first(oracle, price) ==
    IF ~Contains(oracles, oracle) THEN "OracleNotFound"
    ELSE IF I128Le(price, I(0)) THEN "InvalidPrice"
    ELSE IF get_oracle_stats(stats_map, oracle).weight = 0 THEN "LowReputation"
    ELSE ""

\* mutant: the weight gate is missing
submit_error_no_gate(oracle, price) ==
    IF I128Le(price, I(0)) THEN "InvalidPrice"
    ELSE IF ~Contains(oracles, oracle) THEN "OracleNotFound"
    ELSE ""

\* mutant: the gate closes only at reputation_score 0
submit_error_gate_at_score_zero(oracle, price) ==
    IF I128Le(price, I(0)) THEN "InvalidPrice"
    ELSE IF ~Contains(oracles, oracle) THEN "OracleNotFound"
    ELSE IF get_oracle_stats(stats_map, oracle).reputation_score = 0 THEN "LowReputation"
    ELSE ""

\* lib.rs 260-273: the checks of submit_price in their order; "" when all pass
submit_error(oracle, price) ==
    IF I128Le(price, I(0)) THEN "InvalidPrice"
    ELSE IF ~Contains(oracles, oracle) THEN "OracleNotFound"
    ELSE IF get_oracle_stats(stats_map, oracle).weight = 0 THEN "LowReputation"
    ELSE ""

\* mutant: a new submission replaces the oracle's pending one
submit_price_replaces_pending(oracle, price) ==
    /\ call' = "submit_price"
    /\ UNCHANGED <<admin, oracles, stats_map, consensus, now, overflow_checks>>
    /\ IF submit_error(oracle, price) # ""
       THEN /\ result' = Err(submit_error(oracle, price))
            /\ events' = <<>>
            /\ UNCHANGED submissions
       ELSE /\ submissions' = Append(SelectSeq(submissions, LAMBDA s : s.oracle # oracle),
                                     [oracle |-> oracle, price |-> price, timestamp |-> now])
            /\ events' = <<Event("price_submit", oracle, price, "", 0, 0, 0)>>
            /\ result' = Ok(I(0))

submit_price(oracle, price) ==
    /\ call' = "submit_price"
    /\ UNCHANGED <<admin, oracles, stats_map, consensus, now, overflow_checks>>
    /\ IF submit_error(oracle, price) # ""
       THEN /\ result' = Err(submit_error(oracle, price))
            /\ events' = <<>>
            /\ UNCHANGED submissions
       ELSE /\ submissions' = Append(submissions,
                                     [oracle |-> oracle, price |-> price, timestamp |-> now])
            /\ events' = <<Event("price_submit", oracle, price, "", 0, 0, 0)>>
            /\ result' = Ok(I(0))

\* mutant: the empty buffer is not rejected
IsEmptyUnchecked(subs) == FALSE

\* lib.rs 297: submissions.is_empty()
IsEmpty(subs) == subs = <<>>

\* mutant: the stored record counts the distinct submitters, not the entries
calculate_consensus_counts_submitters ==
    LET median == weighted_median(submissions, stats_map)
        consensus_price == median.v
        tracked == TrackAll(submissions, stats_map, consensus_price, now)
        adjusted == AdjustAll(oracles, tracked.m, now)
        applied == Len(oracles) - Len(adjusted.removed) >= 2
        overflow == median.ovf \/ tracked.ovf
    IN /\ call' = "calculate_consensus"
       /\ UNCHANGED <<admin, now, overflow_checks>>
       /\ IF IsEmpty(submissions)
          THEN /\ result' = Err("InsufficientOracles")
               /\ events' = <<>>
               /\ UNCHANGED <<oracles, stats_map, submissions, consensus>>
          ELSE IF overflow_checks /\ overflow
          THEN /\ result' = Trap("arithmetic overflow")
               /\ events' = <<>>
               /\ UNCHANGED <<oracles, stats_map, submissions, consensus>>
          ELSE IF tracked.div0
          THEN /\ result' = Trap("division by zero")
               /\ events' = <<>>
               /\ UNCHANGED <<oracles, stats_map, submissions, consensus>>
          ELSE /\ stats_map' = adjusted.m
               /\ oracles' = ApplyRemoval(oracles, adjusted.removed)
               /\ consensus' = <<[price |-> consensus_price, timestamp |-> now,
                                  num_oracles |->
                                     Cardinality({submissions[i].oracle :
                                                     i \in 1..Len(submissions)})]>>
               /\ submissions' = <<>>
               /\ events' = tracked.ev \o adjusted.ev
                            \o (IF applied THEN RemovedEvents(adjusted.removed) ELSE <<>>)
                            \o <<Event("consensus_reached", NoOracle, consensus_price, "",
                                       Len(submissions), 0, 0)>>
               /\ result' = Ok(consensus_price)

\* mutant: consensus_reached is published as soon as the price is known
calculate_consensus_announces_first ==
    LET median == weighted_median(submissions, stats_map)
        consensus_price == median.v
        tracked == TrackAll(submissions, stats_map, consensus_price, now)
        adjusted == AdjustAll(oracles, tracked.m, now)
        applied == Len(oracles) - Len(adjusted.removed) >= 2
        overflow == median.ovf \/ tracked.ovf
    IN /\ call' = "calculate_consensus"
       /\ UNCHANGED <<admin, now, overflow_checks>>
       /\ IF IsEmpty(submissions)
          THEN /\ result' = Err("InsufficientOracles")
               /\ events' = <<>>
               /\ UNCHANGED <<oracles, stats_map, submissions, consensus>>
          ELSE IF overflow_checks /\ overflow
          THEN /\ result' = Trap("arithmetic overflow")
               /\ events' = <<>>
               /\ UNCHANGED <<oracles, stats_map, submissions, consensus>>
          ELSE IF tracked.div0
          THEN /\ result' = Trap("division by zero")
               /\ events' = <<>>
               /\ UNCHANGED <<oracles, stats_map, submissions, consensus>>
          ELSE /\ stats_map' = adjusted.m
               /\ oracles' = ApplyRemoval(oracles, adjusted.removed)
               /\ consensus' = <<[price |-> consensus_price, timestamp |-> now,
                                  num_oracles |-> Len(submissions)]>>
               /\ submissions' = <<>>
               /\ events' = <<Event("consensus_reached", NoOracle, consensus_price, "",
                                    Len(submissions), 0, 0)>>
                            \o tracked.ev \o adjusted.ev
                            \o (IF applied THEN RemovedEvents(adjusted.removed) ELSE <<>>)
               /\ result' = Ok(consensus_price)

calculate_consensus ==
    LET median == weighted_median(submissions, stats_map)
        consensus_price == median.v
        tracked == TrackAll(submissions, stats_map, consensus_price, now)
        adjusted == AdjustAll(oracles, tracked.m, now)
        applied == Len(oracles) - Len(adjusted.removed) >= 2
        overflow == median.ovf \/ tracked.ovf
    IN /\ call' = "calculate_consensus"
       /\ UNCHANGED <<admin, now, overflow_checks>>
       /\ IF IsEmpty(submissions)
          THEN /\ result' = Err("InsufficientOracles")
               /\ events' = <<>>
               /\ UNCHANGED <<oracles, stats_map, submissions, consensus>>
          ELSE IF overflow_checks /\ overflow
          THEN /\ result' = Trap("arithmetic overflow")
               /\ events' = <<>>
               /\ UNCHANGED <<oracles, stats_map, submissions, consensus>>
          ELSE IF tracked.div0
          THEN /\ result' = Trap("division by zero")
               /\ events' = <<>>
               /\ UNCHANGED <<oracles, stats_map, submissions, consensus>>
          ELSE /\ stats_map' = adjusted.m
               /\ oracles' = ApplyRemoval(oracles, adjusted.removed)
               /\ consensus' = <<[price |-> consensus_price, timestamp |-> now,
                                  num_oracles |-> Len(submissions)]>>
               /\ submissions' = <<>>
               /\ events' = tracked.ev \o adjusted.ev
                            \o (IF applied THEN RemovedEvents(adjusted.removed) ELSE <<>>)
                            \o <<Event("consensus_reached", NoOracle, consensus_price, "",
                                       Len(submissions), 0, 0)>>
               /\ result' = Ok(consensus_price)

\* mutant: the admin removal respects the floor of 2
remove_oracle_floor_checked(a, oracle) ==
    /\ call' = "remove_oracle"
    /\ events' = <<>>
    /\ UNCHANGED <<admin, stats_map, submissions, consensus, now, overflow_checks>>
    /\ IF ~require_admin(a)
       THEN /\ result' = Err("Unauthorized")
            /\ UNCHANGED oracles
       ELSE /\ oracles' = ApplyRemoval(oracles, <<oracle>>)
            /\ result' = Ok(I(0))

\* mutant: removal also deletes the reputation record
remove_oracle_drops_record(a, oracle) ==
    /\ call' = "remove_oracle"
    /\ events' = <<>>
    /\ UNCHANGED <<admin, submissions, consensus, now, overflow_checks>>
    /\ IF ~require_admin(a)
       THEN /\ result' = Err("Unauthorized")
            /\ UNCHANGED <<oracles, stats_map>>
       ELSE /\ oracles' = remove_oracle_internal(oracles, oracle)
            /\ stats_map' = [x \in (DOMAIN stats_map) \ {oracle} |-> stats_map[x]]
            /\ result' = Ok(I(0))

\* mutant: the removed oracle's record is set to weight 0
remove_oracle_zeroes_weight(a, oracle) ==
    /\ call' = "remove_oracle"
    /\ events' = <<>>
    /\ UNCHANGED <<admin, submissions, consensus, now, overflow_checks>>
    /\ IF ~require_admin(a)
       THEN /\ result' = Err("Unauthorized")
            /\ UNCHANGED <<oracles, stats_map>>
       ELSE /\ oracles' = remove_oracle_internal(oracles, oracle)
            /\ stats_map' = save_oracle_stats(stats_map, oracle,
                                [get_oracle_stats(stats_map, oracle) EXCEPT !.weight = 0])
            /\ result' = Ok(I(0))

remove_oracle(a, oracle) ==
    /\ call' = "remove_oracle"
    /\ events' = <<>>
    /\ UNCHANGED <<admin, stats_map, submissions, consensus, now, overflow_checks>>
    /\ IF ~require_admin(a)
       THEN /\ result' = Err("Unauthorized")
            /\ UNCHANGED oracles
       ELSE /\ oracles' = remove_oracle_internal(oracles, oracle)
            /\ result' = Ok(I(0))

\* mutant: the read stores the record it returns (get-or-insert)
get_oracle_reputation_inserts(oracle) ==
    /\ call' = "get_oracle_reputation"
    /\ events' = <<>>
    /\ result' = Ok(get_oracle_stats(stats_map, oracle))
    /\ stats_map' = save_oracle_stats(stats_map, oracle, get_oracle_stats(stats_map, oracle))
    /\ UNCHANGED <<admin, oracles, submissions, consensus, now, overflow_checks>>

get_oracle_reputation(oracle) ==
    /\ call' = "get_oracle_reputation"
    /\ events' = <<>>
    /\ result' = Ok(get_oracle_stats(stats_map, oracle))
    /\ UNCHANGED <<store, now, overflow_checks>>

get_oracles ==
    /\ call' = "get_oracles"
    /\ events' = <<>>
    /\ result' = Ok(oracles)
    /\ UNCHANGED <<store, now, overflow_checks>>

\* Option<ConsensusPriceData>: <<>> is None, <<data>> is Some(data)
get_consensus_price ==
    /\ call' = "get_consensus_price"
    /\ events' = <<>>
    /\ result' = Ok(consensus)
    /\ UNCHANGED <<store, now, overflow_checks>>

\* ------------------------------------------------------- external_adapter.rs
\* an observation; sig_ok is the outcome of ed25519_verify on its signature
ExternalPrice(oracle_address, price, timestamp, sig_ok) ==
    [oracle_address |-> oracle_address, price |-> price, timestamp |-> timestamp,
     sig_ok |-> sig_ok]

SaturatingSub(a, b) == IF a > b THEN a - b ELSE 0

\* weighted_sum / total_weight for a positive total_weight.  A large sum
\* divided by more than 2 has no pair form: the triple <<a, b, w>> stands for
\* the truncated quotient of a * 2^124 + b by w
I128DivSmall(x, w) ==
    IF x[1] = 0 THEN I(TruncDiv(x[2], w))
    ELSE IF w = 1 THEN x
    ELSE IF w = 2 THEN I128Div(x, I(2))
    ELSE <<x[1], x[2], w>>

\* external_adapter.rs 15-44: the loop over the batch.  err is "Overflow"
\* when checked_mul failed (the loop stops there), ovf tells whether a
\* weighted_sum += left the i128 range
RECURSIVE ExternalLoop(_, _, _, _, _)
ExternalLoop(prices, m, t, weighted_sum, total_weight) ==
    IF prices = <<>>
    THEN [m |-> m, sum |-> weighted_sum, weight |-> total_weight, err |-> "", ovf |-> FALSE]
    ELSE LET data == Head(prices)
             weight == get_oracle_stats(m, data.oracle_address).weight
             product == I128Scale(data.price, weight)
             exact == I128Add(weighted_sum, product)
         IN IF ~data.sig_ok
            THEN ExternalLoop(Tail(prices),
                              slash_oracle(m, data.oracle_address, "SignatureFailure", t),
                              t, weighted_sum, total_weight)
            ELSE IF SaturatingSub(t, data.timestamp) > 300
            THEN ExternalLoop(Tail(prices), m, t, weighted_sum, total_weight)
            ELSE IF weight > 0
            THEN IF ~InRange(product)
                 THEN [m |-> m, sum |-> weighted_sum, weight |-> total_weight,
                       err |-> "Overflow", ovf |-> FALSE]
                 ELSE LET rest == ExternalLoop(Tail(prices), m, t, Wrap(exact),
                                               total_weight + weight)
                      IN [rest EXCEPT !.ovf = rest.ovf \/ ~InRange(exact)]
            ELSE ExternalLoop(Tail(prices), m, t, weighted_sum, total_weight)

\* The function as its caller sees it return: what it wrote to storage
\* before returning, Ok or Err, is written.  A panic unwinds to the host,
\* which discards the writes.
process_external_prices(prices) ==
    LET r == ExternalLoop(prices, stats_map, now, I(0), 0)
    IN /\ call' = "process_external_prices"
       /\ events' = <<>>
       /\ UNCHANGED <<admin, oracles, submissions, consensus, now, overflow_checks>>
       /\ IF prices = <<>>
          THEN /\ result' = Err("InsufficientOracles")
               /\ UNCHANGED stats_map
          ELSE IF overflow_checks /\ r.ovf
          THEN /\ result' = Trap("arithmetic overflow")
               /\ UNCHANGED stats_map
          ELSE IF r.err # ""
          THEN /\ result' = Err(r.err)
               /\ stats_map' = r.m
          ELSE IF r.weight = 0
          THEN /\ result' = Err("NoOracleData")
               /\ stats_map' = r.m
          ELSE /\ result' = Ok(I128DivSmall(r.sum, r.weight))
               /\ stats_map' = r.m

\* the ledger clock around the freshness window of the signed observations
TickExt(d) ==
    /\ now + d <= MaxNowExt
    /\ now' = now + d
    /\ call' = "tick"
    /\ result' = Ok(I(0))
    /\ events' = <<>>
    /\ UNCHANGED <<store, overflow_checks>>

\* the exploration stops accepting submissions at MaxBuf pending and cap tracked
Room(oracle, price, cap) ==
    submit_error(oracle, price) = "" => Len(submissions) < MaxBuf /\ Tracked < cap

\* prices offered to submit_price: rejected ones and ordinary ones
Prices == {I(0), I(100), I(150)}
\* the prices of the slashing scenario of the tests
TestPrices == {I(-100), I(0), I(100), I(101), I(150)}
\* fewer and further apart
AdminPrices == {I(0), I(100), I(400)}
\* with i128::MAX, the largest price submit_price accepts
WidePrices == {I(0), I(100), I128_MAX}
TickSteps == {WEEK_IN_SECONDS + 1}

Next ==
    \/ \E d \in TickSteps : Tick(d)
    \/ \E a \in Admins : initialize(a)
    \/ \E a \in Callers, o \in Address : register_oracle(a, o)
    \/ \E o \in Address, p \in Prices : Room(o, p, MaxTracked) /\ submit_price(o, p)
    \/ calculate_consensus

Spec == Init /\ [][Next]_vars

\* the clock stands at 0, as in the test environment
NextTest ==
    \/ \E a \in Admins : initialize(a)
    \/ \E a \in Callers, o \in Address : register_oracle(a, o)
    \/ \E o \in Address, p \in TestPrices : Room(o, p, MaxTracked) /\ submit_price(o, p)
    \/ calculate_consensus

SpecTest == Init /\ [][NextTest]_vars

\* the admin also removes oracles; the clock stands still
NextAdmin ==
    \/ \E a \in Admins : initialize(a)
    \/ \E a \in Callers, o \in Address : register_oracle(a, o)
    \/ \E o \in Address, p \in AdminPrices : Room(o, p, MaxTrackedAdmin) /\ submit_price(o, p)
    \/ calculate_consensus
    \/ \E a \in Callers, o \in Address : remove_oracle(a, o)

SpecAdmin == Init /\ [][NextAdmin]_vars

\* prices up to i128::MAX under either build profile; the clock stands still
InitWide ==
    /\ admin = NoAdmin
    /\ oracles = <<>>
    /\ stats_map = EmptyMap
    /\ submissions = <<>>
    /\ consensus = <<>>
    /\ now = 0
    /\ overflow_checks \in BOOLEAN
    /\ call = "deploy"
    /\ result = Ok(I(0))
    /\ events = <<>>

NextWide ==
    \/ \E a \in Admins : initialize(a)
    \/ \E a \in Callers, o \in Address : register_oracle(a, o)
    \/ \E o \in Address, p \in WidePrices : Room(o, p, MaxTracked) /\ submit_price(o, p)
    \/ calculate_consensus

SpecWide == InitWide /\ [][NextWide]_vars

\* the same on a ledger whose clock reads 1 when the contract is deployed, so
\* that a slash is told from the default last_slash of 0
InitWideLate ==
    /\ admin = NoAdmin
    /\ oracles = <<>>
    /\ stats_map = EmptyMap
    /\ submissions = <<>>
    /\ consensus = <<>>
    /\ now = 1
    /\ overflow_checks \in BOOLEAN
    /\ call = "deploy"
    /\ result = Ok(I(0))
    /\ events = <<>>

SpecWideLate == InitWideLate /\ [][NextWide]_vars

\* the read operations between the others; the clock stands still
NextRead ==
    \/ \E a \in Admins : initialize(a)
    \/ \E a \in Callers, o \in Address : register_oracle(a, o)
    \/ \E o \in Address, p \in Prices : Room(o, p, MaxTrackedAdmin) /\ submit_price(o, p)
    \/ calculate_consensus
    \/ \E o \in Address : get_oracle_reputation(o)
    \/ get_oracles
    \/ get_consensus_price

SpecRead == Init /\ [][NextRead]_vars

\* signed observations: an ordinary price stamped 0 or 1 and i128::MAX with a
\* good signature, and one of o2 with a bad signature
ExtStamps == {0, 1}
\* the oracles of the signed-price path
ExtAddress == {"o1", "o2"}
Observations ==
    {ExternalPrice(o, I(100), ts, TRUE) : o \in ExtAddress, ts \in ExtStamps}
        \cup {ExternalPrice(o, I128_MAX, 1, TRUE) : o \in ExtAddress}
        \cup {ExternalPrice("o2", I(100), 1, FALSE)}
Batches == UNION {[1..n -> Observations] : n \in 0..MaxBatch}
\* the prices of the rounds that set the weights
ExtRoundPrices == {I(100), I(150)}
\* one step takes the clock past the freshness window of stamp 0
ExtTickSteps == {301}

\* the signed-price path next to registration, submission and rounds, under
\* either build profile
NextExt ==
    \/ \E d \in ExtTickSteps : TickExt(d)
    \/ \E a \in Admins : initialize(a)
    \/ \E a \in Admins, o \in ExtAddress : register_oracle(a, o)
    \/ \E o \in ExtAddress, p \in ExtRoundPrices :
          Room(o, p, MaxTrackedAdmin) /\ submit_price(o, p)
    \/ calculate_consensus
    \/ \E prices \in Batches : process_external_prices(prices)

SpecExt == InitWide /\ [][NextExt]_vars

\* batches of a fresh observation of o1 and one of o2 with a bad signature
SlashBatches ==
    UNION {[1..n -> {ExternalPrice("o1", I(100), 1, TRUE),
                     ExternalPrice("o2", I(100), 1, FALSE)}] : n \in 0..MaxBatch}

\* the records one round at time 0 leaves when o1 submitted 100 and 340 and
\* o2 submitted 100: consensus 100, o1 is 24000 bps off once, is slashed and
\* recomputed to score 48 and weight 0, and the floor of two oracles keeps it
GatedRecord ==
    [total_submissions |-> 2, accurate_submissions |-> 1, avg_deviation |-> 12000,
     reputation_score |-> 48, weight |-> 0, last_slash |-> 0]
FeederRecord ==
    [total_submissions |-> 1, accurate_submissions |-> 1, avg_deviation |-> 0,
     reputation_score |-> 90, weight |-> 10, last_slash |-> 0]
InitGated ==
    /\ admin = "admin"
    /\ oracles = <<"o1", "o2">>
    /\ stats_map = [o \in ExtAddress |-> IF o = "o1" THEN GatedRecord ELSE FeederRecord]
    /\ submissions = <<>>
    /\ consensus = <<[price |-> I(100), timestamp |-> 0, num_oracles |-> 3]>>
    /\ now = 0
    /\ overflow_checks = TRUE
    /\ call = "calculate_consensus"
    /\ result = Ok(I(100))
    /\ events = <<Event("oracle_slashed", "o1", I(0), "major_deviation", 20, 0, 0),
                  Event("weight_adjusted", "o1", I(0), "", 1, 0, 48),
                  Event("weight_adjusted", "o2", I(0), "", 1, 10, 90),
                  Event("consensus_reached", NoOracle, I(100), "", 3, 0, 0)>>

\* the price of the rounds that follow
GatedPrices == {I(100)}

\* every operation that writes, the signed-price path included, from the
\* state in which o1 is gated, the clock passing the week of the slash
NextGated ==
    \/ \E d \in TickSteps : Tick(d)
    \/ \E a \in Admins : initialize(a)
    \/ \E a \in Admins, o \in ExtAddress : register_oracle(a, o)
    \/ \E o \in ExtAddress, p \in GatedPrices :
          Room(o, p, MaxTrackedGated) /\ submit_price(o, p)
    \/ calculate_consensus
    \/ \E a \in Admins, o \in ExtAddress : remove_oracle(a, o)
    \/ \E prices \in SlashBatches : process_external_prices(prices)

SpecGated == InitGated /\ [][NextGated]_vars

\* the records after 99 rounds at time 604801 in which o1, o2 and o3 each
\* submitted once: o2 and o3 always 1000, o1 alternately 1000 and 1060 (600
\* bps off) and 1060 in the last round
VeteranRecord ==
    [total_submissions |-> 99, accurate_submissions |-> 49, avg_deviation |-> 279,
     reputation_score |-> 69, weight |-> 2, last_slash |-> 0]
SteadyRecord ==
    [total_submissions |-> 99, accurate_submissions |-> 99, avg_deviation |-> 0,
     reputation_score |-> 100, weight |-> 10, last_slash |-> 0]

\* the contract as the 99th of those rounds leaves it
InitVeteran ==
    /\ admin = "admin"
    /\ oracles = <<"o1", "o2", "o3">>
    /\ stats_map = [o \in Address |-> IF o = "o1" THEN VeteranRecord ELSE SteadyRecord]
    /\ submissions = <<>>
    /\ consensus = <<[price |-> I(1000), timestamp |-> WEEK_IN_SECONDS + 1, num_oracles |-> 3]>>
    /\ now = WEEK_IN_SECONDS + 1
    /\ overflow_checks = TRUE
    /\ call = "calculate_consensus"
    /\ result = Ok(I(1000))
    /\ events = <<Event("consensus_reached", NoOracle, I(1000), "", 3, 0, 0)>>

\* the two prices of those rounds
VeteranPrices == {I(1000), I(1060)}

\* the rounds that take the records to 100 submissions and beyond; the
\* registry only shrinks
NextVeteran ==
    \/ \E a \in Admins : initialize(a)
    \/ \E o \in Address, p \in VeteranPrices :
          Room(o, p, MaxTrackedVeteran) /\ submit_price(o, p)
    \/ calculate_consensus

SpecVeteran == InitVeteran /\ [][NextVeteran]_vars

\* three prices of which the middle one is the median: 61 lies 2375 bps and
\* 85 lies 625 bps from 80, and the truncated running average of 2375, 625
\* and 0 is 999 or 1000 by the order
OrderPrices == {I(61), I(80), I(85)}

\* rounds over those prices; the clock stands still
NextOrder ==
    \/ \E a \in Admins : initialize(a)
    \/ \E a \in Callers, o \in Address : register_oracle(a, o)
    \/ \E o \in Address, p \in OrderPrices : Room(o, p, MaxTracked) /\ submit_price(o, p)
    \/ calculate_consensus

SpecOrder == Init /\ [][NextOrder]_vars

\* the prices of a round that removes an oracle
RegistryPrices == {I(100), I(150)}

\* registration, both removals and the read of the registry; the clock stands
\* still
NextRegistry ==
    \/ \E a \in Admins : initialize(a)
    \/ \E a \in Admins, o \in Address : register_oracle(a, o)
    \/ \E o \in Address, p \in RegistryPrices :
          Room(o, p, MaxTrackedAdmin) /\ submit_price(o, p)
    \/ calculate_consensus
    \/ \E a \in Admins, o \in Address : remove_oracle(a, o)
    \/ get_oracles

SpecRegistry == Init /\ [][NextRegistry]_vars

\* prices up to i128::MAX next to admin removal, two oracles, under either
\* build profile on a ledger whose clock reads 1
NextWideAdmin ==
    \/ \E a \in Admins : initialize(a)
    \/ \E a \in Admins, o \in ExtAddress : register_oracle(a, o)
    \/ \E o \in ExtAddress, p \in WidePrices : Room(o, p, MaxTracked) /\ submit_price(o, p)
    \/ calculate_consensus
    \/ \E a \in Admins, o \in ExtAddress : remove_oracle(a, o)

SpecWideAdmin == InitWideLate /\ [][NextWideAdmin]_vars

\* ------------------------------------------------------------------ claims
Range(seq) == {seq[i] : i \in 1..Len(seq)}
Succeeded == call = "calculate_consensus" /\ result.status = "Ok"
HasEvent(name) == \E i \in 1..Len(events) : events[i].name = name

\* C1: without admin removal, a calculate_consensus that starts with at
\* least 2 registered oracles, or that removes any, leaves at least 2
C1_QuorumFloor ==
    [][(call' = "calculate_consensus" /\ (Len(oracles) >= 2 \/ oracles' # oracles))
          => Len(oracles') >= 2]_vars

\* a round has just removed an oracle and exactly 2 remain
C1_Witness == Succeeded /\ HasEvent("oracle_removed") /\ Len(oracles) = 2

\* C2: the price a successful round returns and persists lies between the
\* smallest and the largest price of the round buffer
C2_MedianBounds ==
    [][(call' = "calculate_consensus" /\ result'.status = "Ok")
          => /\ \E i \in 1..Len(submissions) : I128Le(submissions[i].price, result'.val)
             /\ \E j \in 1..Len(submissions) : I128Le(result'.val, submissions[j].price)
             /\ consensus'[1].price = result'.val]_vars

\* the tier table of the weight: 90-100 -> 10, 75-89 -> 5, 60-74 -> 2, 50-59 -> 1
TierImage(score) ==
    CASE score >= 90 -> 10
      [] score >= 75 /\ score < 90 -> 5
      [] score >= 60 /\ score < 75 -> 2
      [] score >= 50 /\ score < 60 -> 1
      [] OTHER -> 0

\* C3: after calculate_consensus every readable reputation record has the
\* weight its reputation_score maps to
C3_WeightScoreSync ==
    call = "calculate_consensus"
        => \A o \in Address :
              get_oracle_stats(stats_map, o).weight
                  = TierImage(get_oracle_stats(stats_map, o).reputation_score)

EntriesOf(o) == {i \in 1..Len(submissions) : submissions[i].oracle = o}

\* C4: a registered oracle whose single submission of the round deviates by
\* more than 2000 bps ends the round 20 below its previous score
C4_SlashLowersBy20 ==
    [][(call' = "calculate_consensus" /\ result'.status = "Ok")
          => \A o \in Range(oracles) :
               (/\ Cardinality(EntriesOf(o)) = 1
                /\ \A i \in EntriesOf(o) :
                      Deviation(submissions[i].price, result'.val).v > 2000)
               => get_oracle_stats(stats_map', o).reputation_score
                     = Max(get_oracle_stats(stats_map, o).reputation_score - 20, 0)]_vars

\* a removal candidate, read off the record a round leaves
IsCandidate(r) ==
    \/ r.total_submissions >= 100
       /\ (r.accurate_submissions * 100) \div r.total_submissions < 50
    \/ r.reputation_score < 50
CandidatesAfter(os, m) == {o \in Range(os) : IsCandidate(get_oracle_stats(m, o))}

\* C5: a successful round with n registered oracles and c candidates removes
\* exactly the candidates when n - c >= 2 and leaves the registry as it is
\* otherwise
C5_AllOrNothing ==
    [][(call' = "calculate_consensus" /\ result'.status = "Ok")
          => LET cand == CandidatesAfter(oracles, stats_map')
             IN IF Len(oracles) - Cardinality(cand) >= 2
                THEN oracles' = SelectSeq(oracles, LAMBDA o : o \notin cand)
                ELSE oracles' = oracles]_vars

\* 3 oracles are registered, 2 of them are candidates, and the round kept all
C5_Witness ==
    /\ Succeeded
    /\ Len(oracles) = 3
    /\ Cardinality(CandidatesAfter(oracles, stats_map)) = 2

\* C6: every reputation record has accurate_submissions <= total_submissions
C6_AccurateWithinTotal ==
    \A o \in DOMAIN stats_map :
        stats_map[o].accurate_submissions <= stats_map[o].total_submissions

\* an oracle with two tracked submissions, both accurate
C6_Witness ==
    \E o \in DOMAIN stats_map :
        stats_map[o].total_submissions = 2 /\ stats_map[o].accurate_submissions = 2

\* C7: calculate_consensus on an empty buffer returns InsufficientOracles and
\* changes nothing of the persisted state
C7_EmptyRoundRejected ==
    [][(call' = "calculate_consensus" /\ submissions = <<>>)
          => /\ result' = Err("InsufficientOracles")
             /\ UNCHANGED <<admin, oracles, stats_map, submissions, consensus>>]_vars

\* the call was rejected with oracles registered and a consensus stored
C7_Witness ==
    /\ call = "calculate_consensus"
    /\ result = Err("InsufficientOracles")
    /\ oracles # <<>>
    /\ consensus # <<>>

\* C8: calculate_consensus returns Ok exactly when the buffer is non-empty
C8_RoundWithSubmissionsSucceeds ==
    [][call' = "calculate_consensus"
          => (result'.status = "Ok" <=> submissions # <<>>)]_vars

AllPrices == Prices \cup TestPrices \cup AdminPrices \cup WidePrices

\* C9: submit_price with a price <= 0 returns InvalidPrice and changes
\* nothing, whoever calls
C9_InvalidPriceRejected ==
    [][\A o \in Address, p \in AllPrices :
          (I128Le(p, I(0)) /\ submit_price(o, p))
          => /\ result' = Err("InvalidPrice")
             /\ UNCHANGED <<admin, oracles, stats_map, submissions, consensus>>]_vars

\* InvalidPrice was returned while an oracle removed from the registry, a
\* gated one and a pending submission exist
C9_Witness ==
    /\ call = "submit_price"
    /\ result = Err("InvalidPrice")
    /\ submissions # <<>>
    /\ \E o \in DOMAIN stats_map : ~Contains(oracles, o)
    /\ \E o \in Range(oracles) : stats_map[o].weight = 0

\* C10: submit_price with a positive price fails with OracleNotFound for an
\* oracle outside the registry and with LowReputation for a registered oracle
\* of stored weight 0, and changes nothing
C10_UnknownOrGatedRejected ==
    [][\A o \in Address, p \in AllPrices :
          (~I128Le(p, I(0)) /\ submit_price(o, p))
          => /\ ~Contains(oracles, o)
                => /\ result' = Err("OracleNotFound")
                   /\ UNCHANGED <<admin, oracles, stats_map, submissions, consensus>>
             /\ (Contains(oracles, o) /\ get_oracle_stats(stats_map, o).weight = 0)
                => /\ result' = Err("LowReputation")
                   /\ UNCHANGED <<admin, oracles, stats_map, submissions, consensus>>]_vars

\* LowReputation was returned after the admin removed another oracle
C10_Witness ==
    /\ call = "submit_price"
    /\ result = Err("LowReputation")
    /\ \E o \in DOMAIN stats_map : ~Contains(oracles, o)

\* C11: a successful register_oracle(admin, oracle) leaves the oracle in the
\* registry with exactly the default reputation record, whatever record it
\* had before
C11_RegisterGivesDefault ==
    [][\A a \in Callers, o \in Address :
          (register_oracle(a, o) /\ result'.status = "Ok")
          => /\ Contains(oracles', o)
             /\ o \in DOMAIN stats_map'
             /\ stats_map'[o] = [total_submissions |-> 0, accurate_submissions |-> 0,
                                 avg_deviation |-> 0, reputation_score |-> 50,
                                 weight |-> 1, last_slash |-> 0]]_vars

\* an oracle was registered again after a round had tracked it: the records
\* hold fewer submissions than the last round alone counted
C11_Witness ==
    /\ call = "register_oracle"
    /\ result.status = "Ok"
    /\ consensus # <<>>
    /\ SumTotals(stats_map, DOMAIN stats_map) < consensus[1].num_oracles

\* C12: register_oracle by a caller other than the stored admin returns
\* Unauthorized, by the admin for a registered oracle OracleAlreadyExists,
\* and both leave the registry and every reputation record as they were
C12_RegisterRejected ==
    [][\A a \in Callers, o \in Address :
          register_oracle(a, o)
          => /\ a # admin
                => /\ result' = Err("Unauthorized")
                   /\ UNCHANGED <<admin, oracles, stats_map, submissions, consensus>>
             /\ (a = admin /\ Contains(oracles, o))
                => /\ result' = Err("OracleAlreadyExists")
                   /\ UNCHANGED <<admin, oracles, stats_map, submissions, consensus>>]_vars

\* the duplicate was rejected while every registered oracle has a history
C12_Witness ==
    /\ call = "register_oracle"
    /\ result = Err("OracleAlreadyExists")
    /\ \A o \in Range(oracles) : stats_map[o].total_submissions > 0

\* C13: for every oracle, total_submissions and accurate_submissions as
\* get_oracle_reputation reads them never decrease
C13_CountersNeverDecrease ==
    [][\A o \in Address :
          /\ get_oracle_stats(stats_map', o).total_submissions
                >= get_oracle_stats(stats_map, o).total_submissions
          /\ get_oracle_stats(stats_map', o).accurate_submissions
                >= get_oracle_stats(stats_map, o).accurate_submissions]_vars

\* C13 as amended: the counters never decrease, except that a successful
\* register_oracle of an oracle outside the registry sets both to 0
C13_CountersDecreaseOnlyOnRegister ==
    [][\A o \in Address :
          \/ /\ get_oracle_stats(stats_map', o).total_submissions
                   >= get_oracle_stats(stats_map, o).total_submissions
             /\ get_oracle_stats(stats_map', o).accurate_submissions
                   >= get_oracle_stats(stats_map, o).accurate_submissions
          \/ /\ call' = "register_oracle"
             /\ result'.status = "Ok"
             /\ ~Contains(oracles, o)
             /\ Contains(oracles', o)
             /\ get_oracle_stats(stats_map', o).total_submissions = 0
             /\ get_oracle_stats(stats_map', o).accurate_submissions = 0]_vars

\* the admin has just removed an oracle and its counters are still readable
C13_Witness ==
    /\ call = "remove_oracle"
    /\ result.status = "Ok"
    /\ \E o \in DOMAIN stats_map :
          ~Contains(oracles, o) /\ stats_map[o].total_submissions > 0

Reads == {"get_oracle_reputation", "get_oracles", "get_consensus_price"}

\* C14: the read operations change nothing of the persisted state, and
\* get_oracle_reputation of an oracle without a record returns the default
\* record and neither registers the oracle nor creates a record
C14_ReadsArePure ==
    [][/\ call' \in Reads => UNCHANGED <<admin, oracles, stats_map, submissions, consensus>>
       /\ \A o \in Address :
             (get_oracle_reputation(o) /\ o \notin DOMAIN stats_map)
             => /\ result'.val = [total_submissions |-> 0, accurate_submissions |-> 0,
                                  avg_deviation |-> 0, reputation_score |-> 50,
                                  weight |-> 1, last_slash |-> 0]
                /\ ~Contains(oracles', o)
                /\ o \notin DOMAIN stats_map']_vars

\* the default record was returned while every stored record differs from
\* it: the oracle asked about has none
C14_Witness ==
    /\ call = "get_oracle_reputation"
    /\ result.val = DefaultStats
    /\ DOMAIN stats_map # {}
    /\ \A o \in DOMAIN stats_map : stats_map[o] # DefaultStats
    /\ consensus # <<>>

\* C15: remove_oracle called by the stored admin returns Ok and leaves the
\* registry without the oracle and otherwise as it was, however few remain;
\* called by anyone else it returns Unauthorized and changes nothing
C15_AdminRemovalBypassesFloor ==
    [][\A a \in Callers, o \in Address :
          remove_oracle(a, o)
          => IF a = admin
             THEN /\ result'.status = "Ok"
                  /\ ~Contains(oracles', o)
                  /\ \A x \in Address \ {o} : Contains(oracles', x) <=> Contains(oracles, x)
                  /\ Len(oracles') = Len(oracles) - (IF Contains(oracles, o) THEN 1 ELSE 0)
                  /\ UNCHANGED <<admin, stats_map, submissions, consensus>>
             ELSE /\ result' = Err("Unauthorized")
                  /\ UNCHANGED <<admin, oracles, stats_map, submissions, consensus>>]_vars

\* the admin removal returned Ok and the registry, which had oracles, is empty
C15_Witness ==
    /\ call = "remove_oracle"
    /\ result.status = "Ok"
    /\ oracles = <<>>
    /\ DOMAIN stats_map # {}

\* C16: after a successful round every registered oracle with at least one
\* tracked submission, all of them within 500 bps of their consensus
\* (accurate_submissions = total_submissions), has reputation_score >= 75
\* and weight >= 2
C16_AccurateIsPromoted ==
    Succeeded
        => \A o \in Range(oracles) :
              (/\ get_oracle_stats(stats_map, o).total_submissions >= 1
               /\ get_oracle_stats(stats_map, o).accurate_submissions
                     = get_oracle_stats(stats_map, o).total_submissions)
              => /\ get_oracle_stats(stats_map, o).reputation_score >= 75
                 /\ get_oracle_stats(stats_map, o).weight >= 2

\* after a round one registered oracle has two submissions, both accurate,
\* next to a registered oracle that missed
C16_Witness ==
    /\ Succeeded
    /\ \E o \in Range(oracles) :
          stats_map[o].total_submissions = 2 /\ stats_map[o].accurate_submissions = 2
    /\ \E o \in Range(oracles) :
          stats_map[o].accurate_submissions < stats_map[o].total_submissions

\* |p - c| * 10000 / c > 500 in exact arithmetic, for a positive c
FartherThan500Bps(p, c) ==
    LET d == I128Sub(p, c)
        a == IF I128Sign(d) < 0 THEN I128Sub(I(0), d) ELSE d
    IN I128Sign(I128Sub(I128Scale(a, 10000), I128Scale(c, 501))) >= 0

\* C17: after a successful round, a registered oracle that submitted in it
\* and whose submissions, in this round and before, all deviated by more
\* than 500 bps from consensus has reputation_score < 50 and weight 0
C17_InaccurateIsGated ==
    [][(call' = "calculate_consensus" /\ result'.status = "Ok" /\ I128Sign(result'.val) > 0)
          => \A o \in Range(oracles) :
               (/\ EntriesOf(o) # {}
                /\ get_oracle_stats(stats_map, o).accurate_submissions = 0
                /\ \A i \in EntriesOf(o) : FartherThan500Bps(submissions[i].price, result'.val))
               => /\ get_oracle_stats(stats_map', o).reputation_score < 50
                  /\ get_oracle_stats(stats_map', o).weight = 0]_vars

\* C18: when process_external_prices returns an error, every oracle's
\* reputation record reads as it did before the call
C18_ExternalErrorKeepsRecords ==
    [][(call' = "process_external_prices" /\ result'.status = "Err")
          => \A o \in Address :
                get_oracle_stats(stats_map', o) = get_oracle_stats(stats_map, o)]_vars

\* C19: every reputation record has reputation_score in 0..100, weight in
\* {0, 1, 2, 5, 10} and avg_deviation >= 0
C19_RecordTypes ==
    \A o \in DOMAIN stats_map :
        /\ stats_map[o].reputation_score \in 0..100
        /\ stats_map[o].weight \in {0, 1, 2, 5, 10}
        /\ stats_map[o].avg_deviation >= 0

\* the copies of the weighted multiset whose price is below p (strict) or at
\* most p, each submission counting max(weight, 1) times under the records m
RECURSIVE RefCopies(_, _, _, _)
RefCopies(subs, m, p, strict) ==
    IF subs = <<>> THEN 0
    ELSE (IF (IF strict THEN I128Lt(Head(subs).price, p) ELSE I128Le(Head(subs).price, p))
          THEN Max(get_oracle_stats(m, Head(subs).oracle).weight, 1)
          ELSE 0) + RefCopies(Tail(subs), m, p, strict)

\* the k-th smallest element of the weighted multiset
RefKth(subs, m, k) ==
    CHOOSE p \in {subs[i].price : i \in 1..Len(subs)} :
        RefCopies(subs, m, p, TRUE) < k /\ k <= RefCopies(subs, m, p, FALSE)

\* its median: the middle element, or the truncated average of the two
\* middle elements
RefMedian(subs, m) ==
    LET n == RefCopies(subs, m, I128_MAX, FALSE)
    IN IF n % 2 = 1 THEN RefKth(subs, m, (n + 1) \div 2)
       ELSE I128Div(I128Add(RefKth(subs, m, n \div 2), RefKth(subs, m, n \div 2 + 1)), I(2))

\* C20: the price of a successful round is the median of the multiset that
\* holds each buffered price max(w, 1) times, w being the submitter's stored
\* weight when calculate_consensus starts
C20_WeightedMedianReference ==
    [][(call' = "calculate_consensus" /\ result'.status = "Ok")
          => result'.val = RefMedian(submissions, stats_map)]_vars

\* the score of section 4.5 of a record r at time t, with truncating division
SpecifiedScore(r, t) ==
    IF r.total_submissions = 0 THEN 50
    ELSE LET accuracy == (r.accurate_submissions * 60) \div r.total_submissions
             thousandths == IF r.avg_deviation >= 0
                            THEN r.avg_deviation \div 1000
                            ELSE -((-r.avg_deviation) \div 1000)
             penalty == IF thousandths < 30 THEN thousandths ELSE 30
             bonus == IF t - r.last_slash > 604800 THEN 10 ELSE 0
             sum == accuracy + (30 - penalty) + bonus
         IN IF sum < 100 THEN sum ELSE 100

\* C21: after a successful round at time now, every oracle registered at its
\* start has the score the formula gives on its statistics after the round
C21_ScoreIsRecomputed ==
    [][(call' = "calculate_consensus" /\ result'.status = "Ok")
          => \A o \in Range(oracles) :
               /\ o \in DOMAIN stats_map'
               /\ stats_map'[o].reputation_score = SpecifiedScore(stats_map'[o], now)]_vars

\* a round past the first week left a submitter at 100 and a registered
\* oracle that never submitted at 50
C21_Witness ==
    /\ Succeeded
    /\ now > WEEK_IN_SECONDS
    /\ \E o \in Range(oracles) :
         /\ get_oracle_stats(stats_map, o).total_submissions > 0
         /\ get_oracle_stats(stats_map, o).reputation_score = 100
    /\ \E o \in Range(oracles) :
         /\ o \in DOMAIN stats_map
         /\ stats_map[o].total_submissions = 0
         /\ stats_map[o].reputation_score = 50

\* a price or consensus of ordinary size
Ordinary(x) == x[1] = 0

\* d = |price - consensus| * 10000 / consensus, truncating, for ordinary
\* operands and a positive consensus
SpecifiedDeviation(p, c) ==
    ((IF p[2] >= c[2] THEN p[2] - c[2] ELSE c[2] - p[2]) * 10000) \div c[2]

\* the running average of section 4.3 over the entries of o in subs, in
\* buffer order, from average avg over n earlier submissions
RECURSIVE SpecifiedAverage(_, _, _, _, _)
SpecifiedAverage(subs, o, c, avg, n) ==
    IF subs = <<>> THEN avg
    ELSE IF Head(subs).oracle # o THEN SpecifiedAverage(Tail(subs), o, c, avg, n)
    ELSE SpecifiedAverage(Tail(subs), o, c,
                          (avg * n + SpecifiedDeviation(Head(subs).price, c)) \div (n + 1),
                          n + 1)

\* C22: a successful round adds to each oracle's total_submissions the number
\* of its buffered entries and to accurate_submissions the number of those
\* within 500 bps of the consensus, folds their deviations into avg_deviation
\* in buffer order, and leaves the three fields of every other oracle alone
C22_TrackingPerSubmission ==
    [][(call' = "calculate_consensus" /\ result'.status = "Ok" /\ I128Sign(result'.val) > 0)
          => \A o \in Address :
               LET before == get_oracle_stats(stats_map, o)
                   after == get_oracle_stats(stats_map', o)
                   mine == EntriesOf(o)
                   within == {i \in mine : ~FartherThan500Bps(submissions[i].price, result'.val)}
               IN /\ after.total_submissions = before.total_submissions + Cardinality(mine)
                  /\ after.accurate_submissions
                       = before.accurate_submissions + Cardinality(within)
                  /\ (Ordinary(result'.val) /\ \A i \in mine : Ordinary(submissions[i].price))
                       => after.avg_deviation
                            = SpecifiedAverage(submissions, o, result'.val,
                                               before.avg_deviation, before.total_submissions)
                  /\ mine = {} => after.avg_deviation = before.avg_deviation]_vars

\* price p lies more than 2000 bps from a positive consensus c:
\* |p - c| * 10000 / c, truncated, exceeds 2000
FartherThan2000Bps(p, c) ==
    LET d == I128Sub(p, c)
        a == IF I128Sign(d) < 0 THEN I128Sub(I(0), d) ELSE d
    IN I128Sign(I128Sub(I128Scale(a, 10000), I128Scale(c, 2001))) >= 0

\* C23: a successful round at time now sets last_slash to now for the oracles
\* with a buffered submission more than 2000 bps from the consensus, those at
\* exactly 2000 bps not among them, and leaves every other last_slash alone
C23_SlashIsStrict ==
    [][(call' = "calculate_consensus" /\ result'.status = "Ok" /\ I128Sign(result'.val) > 0)
          => \A o \in Address :
               IF \E i \in EntriesOf(o) : FartherThan2000Bps(submissions[i].price, result'.val)
               THEN get_oracle_stats(stats_map', o).last_slash = now
               ELSE get_oracle_stats(stats_map', o).last_slash
                      = get_oracle_stats(stats_map, o).last_slash]_vars

\* C24: a successful round removes only registered oracles whose post-round
\* record has at least 100 submissions with an accuracy rate below 50 percent
\* or a score below 50, announces each removal, and removes every such oracle
\* when at least 2 oracles remain without them
C24_RemovalEligibility ==
    [][(call' = "calculate_consensus" /\ result'.status = "Ok")
          => LET Eligible(o) ==
                     \/ /\ stats_map'[o].total_submissions >= 100
                        /\ (stats_map'[o].accurate_submissions * 100)
                              \div stats_map'[o].total_submissions < 50
                     \/ stats_map'[o].reputation_score < 50
                 eligible == {o \in Range(oracles) : Eligible(o)}
                 Announced(o) == \E i \in 1..Len(events') :
                                    /\ events'[i].name = "oracle_removed"
                                    /\ events'[i].oracle = o
             IN /\ Range(oracles') \subseteq Range(oracles)
                /\ \A o \in Range(oracles) :
                     /\ o \notin Range(oracles') => o \in eligible
                     /\ Announced(o) <=> o \notin Range(oracles')
                     /\ (o \in eligible /\ Len(oracles) - Cardinality(eligible) >= 2)
                          => o \notin Range(oracles')]_vars

\* a round has removed an oracle for its accuracy rate over 100 submissions
\* while its score is 50 or more
C24_Witness ==
    /\ Succeeded
    /\ HasEvent("oracle_removed")
    /\ \E o \in DOMAIN stats_map :
         /\ o \notin Range(oracles)
         /\ stats_map[o].total_submissions >= 100
         /\ stats_map[o].reputation_score >= 50

\* C25: nothing is stored as consensus at deployment; a successful round
\* empties the buffer and stores the returned price, the ledger time and the
\* number of buffer entries in place of the previous record; no other call,
\* a failed round included, changes the record; get_consensus_price returns
\* the record, None while there is none
C25_RoundFinalization ==
    /\ consensus = <<>>
    /\ [][/\ (call' = "calculate_consensus" /\ result'.status = "Ok")
             => /\ submissions' = <<>>
                /\ consensus' = <<[price |-> result'.val, timestamp |-> now,
                                   num_oracles |-> Len(submissions)]>>
          /\ ~(call' = "calculate_consensus" /\ result'.status = "Ok")
             => consensus' = consensus
          /\ call' = "get_consensus_price"
             => /\ result'.status = "Ok"
                /\ result'.val = consensus]_vars

\* get_consensus_price returns the record of a second round, of one entry,
\* after a first round
C25_Witness ==
    /\ call = "get_consensus_price"
    /\ result.val # <<>>
    /\ result.val[1].num_oracles = 1
    /\ SumTotals(stats_map, DOMAIN stats_map) = 2

\* the buffers that hold the entries of subs in another order
Reorderings(subs) ==
    {[i \in 1..Len(subs) |-> subs[f[i]]] :
        f \in {g \in [1..Len(subs) -> 1..Len(subs)] :
                  \A i, j \in 1..Len(subs) : g[i] = g[j] => i = j}}

\* what calculate_consensus computes from buffer subs in the current registry,
\* records and ledger time
RoundOutcome(subs) ==
    LET median == weighted_median(subs, stats_map)
        tracked == TrackAll(subs, stats_map, median.v, now)
        adjusted == AdjustAll(oracles, tracked.m, now)
    IN [price |-> median.v,
        failed |-> (overflow_checks /\ (median.ovf \/ tracked.ovf)) \/ tracked.div0,
        records |-> adjusted.m,
        registry |-> ApplyRemoval(oracles, adjusted.removed)]

\* C26: a successful round comes out the same for every other order of its
\* buffer: the same consensus price, the same avg_deviation, reputation_score
\* and weight of every oracle, and the same registry
C26_OrderIndependence ==
    [][(call' = "calculate_consensus" /\ result'.status = "Ok")
          => \A other \in Reorderings(submissions) :
               LET out == RoundOutcome(other)
               IN /\ ~out.failed
                  /\ out.price = result'.val
                  /\ out.registry = oracles'
                  /\ DOMAIN out.records = DOMAIN stats_map'
                  /\ \A o \in DOMAIN stats_map' :
                       /\ out.records[o].avg_deviation = stats_map'[o].avg_deviation
                       /\ out.records[o].reputation_score = stats_map'[o].reputation_score
                       /\ out.records[o].weight = stats_map'[o].weight]_vars

\* C27: a successful submit_price(oracle, price) at time now puts the entry
\* (oracle, price, now) behind the entries the buffer holds and keeps those,
\* the same oracle's among them; a successful round empties the buffer and no
\* other call touches it, so the buffer is the accepted submissions since the
\* last successful round in call order
C27_BufferAppendOnly ==
    [][/\ \A o \in Address, p \in AllPrices :
            (submit_price(o, p) /\ result'.status = "Ok")
            => submissions' = submissions \o <<[oracle |-> o, price |-> p, timestamp |-> now]>>
       /\ (call' = "submit_price" /\ result'.status = "Ok")
            => /\ Len(submissions') = Len(submissions) + 1
               /\ \A i \in 1..Len(submissions) : submissions'[i] = submissions[i]
               /\ submissions'[Len(submissions')].oracle = events'[1].oracle
               /\ submissions'[Len(submissions')].price = events'[1].price
               /\ submissions'[Len(submissions')].timestamp = now
       /\ (call' = "calculate_consensus" /\ result'.status = "Ok") => submissions' = <<>>
       /\ (result'.status # "Ok" \/ call' \notin {"submit_price", "calculate_consensus"})
            => submissions' = submissions]_vars

\* an accepted submission has joined an earlier one of the same oracle from
\* another ledger time
C27_Witness ==
    /\ call = "submit_price"
    /\ result.status = "Ok"
    /\ \E i, j \in 1..Len(submissions) :
         /\ i < j
         /\ submissions[i].oracle = submissions[j].oracle
         /\ submissions[i].timestamp < submissions[j].timestamp

\* C28: every consensus price a round computes is at least 1, and no round
\* divides by a zero consensus
C28_ConsensusPositive ==
    [][call' = "calculate_consensus"
          => /\ result' # Trap("division by zero")
             /\ result'.status = "Ok"
                  => /\ I128Sign(result'.val) > 0
                     /\ I128Sign(consensus'[1].price) > 0]_vars

\* the place of an event of a round in the order of section 6
EventRank(name) ==
    CASE name = "oracle_slashed" -> 1
      [] name = "weight_adjusted" -> 2
      [] name = "oracle_removed" -> 3
      [] name = "consensus_reached" -> 4
      [] OTHER -> 0

\* the oracles of the events called name, in the order of the events
OraclesOf(evs, name) ==
    LET named == SelectSeq(evs, LAMBDA e : e.name = name)
    IN [i \in 1..Len(named) |-> named[i].oracle]

\* sequence s picks elements of sequence t in the order of t
RECURSIVE IsSubsequence(_, _)
IsSubsequence(s, t) ==
    IF s = <<>> THEN TRUE
    ELSE IF t = <<>> THEN FALSE
    ELSE IF Head(s) = Head(t) THEN IsSubsequence(Tail(s), Tail(t))
    ELSE IsSubsequence(s, Tail(t))

\* C29: the events of a successful round are its oracle_slashed events in
\* buffer order, then its weight_adjusted events in registry order, then its
\* oracle_removed events, then one consensus_reached; a failed round emits
\* no event
C29_EventOrder ==
    [][call' = "calculate_consensus"
          => IF result'.status = "Ok"
             THEN /\ Len(events') >= 1
                  /\ \A i \in 1..Len(events') :
                       /\ EventRank(events'[i].name) >= 1
                       /\ events'[i].name = "consensus_reached" <=> i = Len(events')
                       /\ \A j \in 1..Len(events') :
                            i < j => EventRank(events'[i].name) <= EventRank(events'[j].name)
                  /\ IsSubsequence(OraclesOf(events', "oracle_slashed"),
                                   [i \in 1..Len(submissions) |-> submissions[i].oracle])
                  /\ IsSubsequence(OraclesOf(events', "weight_adjusted"), oracles)
             ELSE events' = <<>>]_vars

\* one round has slashed, adjusted a weight, removed an oracle and announced
\* its consensus
C29_Witness ==
    /\ Succeeded
    /\ HasEvent("oracle_slashed")
    /\ HasEvent("weight_adjusted")
    /\ HasEvent("oracle_removed")
    /\ HasEvent("consensus_reached")

\* the weight_adjusted events of evs about oracle o
AdjustmentsOf(evs, o) ==
    SelectSeq(evs, LAMBDA e : e.name = "weight_adjusted" /\ e.oracle = o)

\* C30: a successful round emits weight_adjusted for a registered oracle
\* exactly when its weight after the round differs from its weight before,
\* once, with the old weight, the new weight and the new reputation_score,
\* and for no other oracle
C30_WeightAdjustedIffChanged ==
    [][(call' = "calculate_consensus" /\ result'.status = "Ok")
          => \A o \in Address :
               LET old == get_oracle_stats(stats_map, o)
                   new == get_oracle_stats(stats_map', o)
                   told == AdjustmentsOf(events', o)
               IN IF o \in Range(oracles) /\ new.weight # old.weight
                  THEN /\ Len(told) = 1
                       /\ told[1].n1 = old.weight
                       /\ told[1].n2 = new.weight
                       /\ told[1].n3 = new.reputation_score
                  ELSE told = <<>>]_vars

\* one round has announced the new weight of one registered oracle and kept
\* silent about another, whose weight it left as it was
C30_Witness ==
    /\ Succeeded
    /\ \E o \in DOMAIN stats_map : Len(AdjustmentsOf(events, o)) = 1
    /\ \E o \in Range(oracles) :
         /\ AdjustmentsOf(events, o) = <<>>
         /\ get_oracle_stats(stats_map, o).total_submissions > 0

\* C31: the registry holds no oracle twice; a successful registration puts
\* the oracle behind the others; an admin removal takes out that oracle and a
\* round takes out the oracles it announces, both keeping the others in their
\* order; nothing else changes the registry, and get_oracles returns it
C31_RegistryOrder ==
    [][/\ \A i, j \in 1..Len(oracles') : oracles'[i] = oracles'[j] => i = j
       /\ \A a \in Callers, o \in Address :
            (register_oracle(a, o) /\ result'.status = "Ok")
            => oracles' = oracles \o <<o>>
       /\ \A a \in Callers, o \in Address :
            (remove_oracle(a, o) /\ result'.status = "Ok")
            => /\ Range(oracles') = Range(oracles) \ {o}
               /\ IsSubsequence(oracles', oracles)
       /\ call' = "calculate_consensus"
            => /\ IsSubsequence(oracles', oracles)
               /\ Range(oracles) \ Range(oracles')
                    = Range(OraclesOf(events', "oracle_removed"))
       /\ (call' \notin {"register_oracle", "remove_oracle", "calculate_consensus"}
              \/ result'.status # "Ok")
            => oracles' = oracles
       /\ call' = "get_oracles" => result' = Ok(oracles)]_vars

\* get_oracles returns the two oracles that remain, o3 before o1, after o2
\* with its history left the registry
C31_Witness ==
    /\ call = "get_oracles"
    /\ result.val = <<"o3", "o1">>
    /\ "o2" \in DOMAIN stats_map
    /\ stats_map["o2"].total_submissions > 0
    /\ stats_map["o1"].total_submissions = 0

\* the observations of a batch that count: signature verified, at most 300
\* seconds old, oracle of stored weight above 0
Included(prices) ==
    {i \in 1..Len(prices) :
        /\ prices[i].sig_ok
        /\ (IF now > prices[i].timestamp THEN now - prices[i].timestamp ELSE 0) <= 300
        /\ get_oracle_stats(stats_map, prices[i].oracle_address).weight > 0}

\* the exact sum of price * weight over the observations of S
RECURSIVE ExactWeightedSum(_, _)
ExactWeightedSum(prices, S) ==
    IF S = {} THEN I(0)
    ELSE LET i == CHOOSE x \in S : TRUE
             w == get_oracle_stats(stats_map, prices[i].oracle_address).weight
         IN I128Add(I128Scale(prices[i].price, w), ExactWeightedSum(prices, S \ {i}))

\* the sum of the weights of the observations of S
RECURSIVE WeightSum(_, _)
WeightSum(prices, S) ==
    IF S = {} THEN 0
    ELSE LET i == CHOOSE x \in S : TRUE
         IN get_oracle_stats(stats_map, prices[i].oracle_address).weight
               + WeightSum(prices, S \ {i})

\* p is the truncated quotient of the sum s >= 0 by w > 0; a triple is the
\* quotient of its first two components by its third
IsQuotient(p, s, w) ==
    IF Len(p) = 3 THEN <<p[1], p[2]>> = s /\ p[3] = w
    ELSE /\ I128Le(I128Scale(p, w), s)
         /\ I128Lt(s, I128Add(I128Scale(p, w), I(w)))

\* C32: when process_external_prices returns Ok(p), p is the truncated
\* weighted mean of the observations that count and lies between their
\* smallest and largest price, and every observation whose signature failed
\* has cost its oracle 30 points of score, not below 0, and set its
\* last_slash to now
C32_SignedPriceFusion ==
    [][\A prices \in Batches :
          (process_external_prices(prices) /\ result'.status = "Ok")
          => LET inc == Included(prices)
                 s == ExactWeightedSum(prices, inc)
                 w == WeightSum(prices, inc)
             IN /\ inc # {}
                /\ IsQuotient(result'.val, s, w)
                /\ \E i \in inc : I128Le(I128Scale(prices[i].price, w), s)
                /\ \E i \in inc : I128Le(s, I128Scale(prices[i].price, w))
                /\ Len(result'.val) = 2
                     => /\ \E i \in inc : I128Le(prices[i].price, result'.val)
                        /\ \E i \in inc : I128Le(result'.val, prices[i].price)
                /\ \A o \in Address :
                     LET failed == {i \in 1..Len(prices) :
                                       ~prices[i].sig_ok /\ prices[i].oracle_address = o}
                         old == get_oracle_stats(stats_map, o)
                         new == get_oracle_stats(stats_map', o)
                     IN IF failed = {} THEN new = old
                        ELSE new = [old EXCEPT
                                      !.reputation_score =
                                         IF old.reputation_score > 30 * Cardinality(failed)
                                         THEN old.reputation_score - 30 * Cardinality(failed)
                                         ELSE 0,
                                      !.last_slash = now]]_vars

\* C33: every buffered submission has a positive price and an oracle whose
\* stored weight is at least 1, removed from the registry or not
C33_BufferedWeightPositive ==
    \A i \in 1..Len(submissions) :
       /\ I128Sign(submissions[i].price) > 0
       /\ get_oracle_stats(stats_map, submissions[i].oracle).weight >= 1

\* the buffer holds the submission of an oracle the admin has removed since,
\* while another oracle is gated at weight 0
C33_Witness ==
    /\ \E i \in 1..Len(submissions) : submissions[i].oracle \notin Range(oracles)
    /\ \E o \in DOMAIN stats_map : stats_map[o].weight = 0

\* the buffer is empty and no registered oracle has a weight above 0
Stalled ==
    /\ submissions = <<>>
    /\ \A o \in Range(oracles) : get_oracle_stats(stats_map, o).weight = 0

\* C34: from a state with an empty buffer and every registered oracle at
\* weight 0, every step other than a successful registration leaves the
\* contract in such a state with the same weights and consensus: submit_price
\* is rejected and calculate_consensus returns InsufficientOracles, whatever
\* the ledger time
C34_StallPersists ==
    [][(Stalled /\ ~(call' = "register_oracle" /\ result'.status = "Ok"))
          => /\ Stalled'
             /\ \A o \in Address : get_oracle_stats(stats_map', o).weight
                                      = get_oracle_stats(stats_map, o).weight
             /\ consensus' = consensus
             /\ call' = "submit_price" => result'.status = "Err"
             /\ call' = "calculate_consensus" => result' = Err("InsufficientOracles")]_vars

\* two registered oracles, both at weight 0 since a round at time 0, and a
\* submission rejected for low reputation more than a week later
C34_Witness ==
    /\ Stalled
    /\ Len(oracles) = 2
    /\ now > WEEK_IN_SECONDS
    /\ consensus # <<>>
    /\ consensus[1].timestamp = 0
    /\ call = "submit_price"
    /\ result = Err("LowReputation")

\* C35: in a successful round, the buffered submissions of an oracle that is
\* no longer registered enter the median and the entry count and are tracked
\* and slashed like any other, while the oracle's weight stays as it is and
\* the round neither adjusts nor removes it
C35_RemovedSubmitterStillCounts ==
    [][(call' = "calculate_consensus" /\ result'.status = "Ok" /\ I128Sign(result'.val) > 0)
          => /\ result'.val = RefMedian(submissions, stats_map)
             /\ consensus'[1].num_oracles = Len(submissions)
             /\ \A o \in Address \ Range(oracles) :
                  LET old == get_oracle_stats(stats_map, o)
                      new == get_oracle_stats(stats_map', o)
                      mine == EntriesOf(o)
                      within == {i \in mine :
                                    ~FartherThan500Bps(submissions[i].price, result'.val)}
                      major == {i \in mine :
                                   FartherThan2000Bps(submissions[i].price, result'.val)}
                  IN mine # {}
                     => /\ new.total_submissions = old.total_submissions + Cardinality(mine)
                        /\ new.accurate_submissions
                             = old.accurate_submissions + Cardinality(within)
                        /\ (Ordinary(result'.val)
                               /\ \A i \in mine : Ordinary(submissions[i].price))
                             => new.avg_deviation
                                  = SpecifiedAverage(submissions, o, result'.val,
                                                     old.avg_deviation, old.total_submissions)
                        /\ new.reputation_score
                             = (IF old.reputation_score > 20 * Cardinality(major)
                                THEN old.reputation_score - 20 * Cardinality(major) ELSE 0)
                        /\ new.last_slash = (IF major # {} THEN now ELSE old.last_slash)
                        /\ new.weight = old.weight
                        /\ AdjustmentsOf(events', o) = <<>>
                        /\ o \notin Range(OraclesOf(events', "oracle_removed"))]_vars

\* C36: after a successful round, a registered oracle without a tracked
\* submission has reputation_score 50 and weight 1 and stays registered
C36_UntrackedStaysDefault ==
    [][(call' = "calculate_consensus" /\ result'.status = "Ok")
          => \A o \in Range(oracles) :
               get_oracle_stats(stats_map', o).total_submissions = 0
               => /\ get_oracle_stats(stats_map', o).reputation_score = 50
                  /\ get_oracle_stats(stats_map', o).weight = 1
                  /\ o \in Range(oracles')
                  /\ o \notin Range(OraclesOf(events', "oracle_removed"))]_vars

\* a round more than a week after deployment removed an oracle and left a
\* registered one that never submitted at score 50 and weight 1
C36_Witness ==
    /\ Succeeded
    /\ now > WEEK_IN_SECONDS
    /\ HasEvent("oracle_removed")
    /\ \E o \in Range(oracles) :
         /\ o \in DOMAIN stats_map
         /\ stats_map[o].total_submissions = 0
         /\ stats_map[o].reputation_score = 50
         /\ stats_map[o].weight = 1

\* C37: after a successful round, a registered oracle at weight 0 means that
\* the round removed no oracle and that at most one oracle of the registry is
\* not a removal candidate; a round that removes an oracle leaves only
\* oracles with reputation_score of 50 or more and weight of 1 or more
C37_GatedMeansFloorHeld ==
    [][(call' = "calculate_consensus" /\ result'.status = "Ok")
          => LET gated == {o \in Range(oracles') : get_oracle_stats(stats_map', o).weight = 0}
                 spared == {o \in Range(oracles) :
                               ~IsCandidate(get_oracle_stats(stats_map', o))}
             IN /\ \A o \in gated : get_oracle_stats(stats_map', o).reputation_score < 50
                /\ gated # {}
                     => /\ oracles' = oracles
                        /\ OraclesOf(events', "oracle_removed") = <<>>
                        /\ Cardinality(spared) <= 1
                /\ oracles' # oracles
                     => \A o \in Range(oracles') :
                          /\ get_oracle_stats(stats_map', o).reputation_score >= 50
                          /\ get_oracle_stats(stats_map', o).weight >= 1]_vars

\* a round has left three oracles registered, two of them at weight 0
C37_Witness ==
    /\ Succeeded
    /\ Len(oracles) = 3
    /\ Cardinality({o \in Range(oracles) : get_oracle_stats(stats_map, o).weight = 0}) = 2

\* the record of oracle o as get_oracle_reputation reads it is the same
\* before and after the step
SameRecord(o) == get_oracle_stats(stats_map', o) = get_oracle_stats(stats_map, o)
\* the weight, or the score, of oracle o differs before and after the step
WeightMoved(o) ==
    get_oracle_stats(stats_map', o).weight # get_oracle_stats(stats_map, o).weight
ScoreMoved(o) ==
    get_oracle_stats(stats_map', o).reputation_score
        # get_oracle_stats(stats_map, o).reputation_score
RoundSucceeds == call' = "calculate_consensus" /\ result'.status = "Ok"
\* what the frame says of submit_price, remove_oracle and register_oracle
FrameOfWrites ==
    /\ \A o \in Address, p \in Prices \cup AdminPrices \cup WidePrices \cup GatedPrices :
          submit_price(o, p) => /\ \A q \in Address : SameRecord(q)
                                /\ consensus' = consensus
    /\ \A a \in Callers, o \in Address :
          remove_oracle(a, o) => /\ \A q \in Address : SameRecord(q)
                                 /\ consensus' = consensus
    /\ \A a \in Callers, o \in Address :
          register_oracle(a, o) => \A q \in Address \ {o} : SameRecord(q)

\* the claim as stated: the weight and the score of a registered oracle move
\* only in a successful round
C38_FrameAsStated ==
    [][/\ FrameOfWrites
       /\ \A o \in Range(oracles) : (WeightMoved(o) \/ ScoreMoved(o)) => RoundSucceeds]_vars

\* C38: submit_price, accepted or rejected, and remove_oracle leave every
\* oracle's record and the stored consensus as they were; register_oracle
\* leaves every other oracle's record as it was; the weight of a registered
\* oracle moves only in a successful calculate_consensus, and its score
\* moves only there or when process_external_prices returns after slashing
\* it, which lowers the score and stamps last_slash; a registered oracle at
\* weight 0 leaves weight 0 only in a successful round whose buffer held no
\* submission of its own
C38_Frame ==
    [][/\ FrameOfWrites
       /\ \A o \in Range(oracles) :
            /\ WeightMoved(o) => RoundSucceeds
            /\ ScoreMoved(o) =>
                 \/ RoundSucceeds
                 \/ /\ call' = "process_external_prices"
                    /\ result'.status # "Trap"
                    /\ get_oracle_stats(stats_map', o).reputation_score
                          < get_oracle_stats(stats_map, o).reputation_score
                    /\ get_oracle_stats(stats_map', o).last_slash = now
            /\ (get_oracle_stats(stats_map, o).weight = 0 /\ WeightMoved(o))
                 => \A i \in 1..Len(submissions) : submissions[i].oracle # o]_vars

\* o1, gated at weight 0 since the round at time 0, has its weight back after
\* a round more than a week later to which it submitted nothing: its record
\* still counts the two submissions of the first round
C38_Witness ==
    /\ Succeeded
    /\ now > WEEK_IN_SECONDS
    /\ consensus[1].timestamp = now
    /\ Contains(oracles, "o1")
    /\ get_oracle_stats(stats_map, "o1").total_submissions = 2
    /\ get_oracle_stats(stats_map, "o1").avg_deviation = 12000
    /\ get_oracle_stats(stats_map, "o1").weight >= 1

====
